---- MODULE Spec2Model ----
(***************************************************************************)
(* Model of selfdrive/modeld/modeld.py: the stream set-up at start-up,     *)
(* the frame-synchronisation loop,                                         *)
(* the desire-pulse and feature history buffers of ModelState.eval, the    *)
(* dropped-frame filter and the calibration state of the main loop.        *)
(*                                                                         *)
(* Conventions                                                             *)
(*  - Timestamps are in milliseconds (the source's 25000000 ns and         *)
(*    10000000 ns thresholds are 25 ms and 10 ms).                         *)
(*  - A flat numpy buffer of n blocks is a sequence of n blocks; the       *)
(*    slice assignments buf[:-L] = buf[L:] and buf[-L:] = v are Tail and   *)
(*    Append on that sequence.                                             *)
(*  - A desire vector is a function 0..DESIRE_LEN-1 -> {0, 1}.             *)
(*  - A feature block is the slice <<e, off, len>> of the output written   *)
(*    by the e-th execution of the engine; <<0, 0, len>> is the zero block.*)
(*  - The filter value is an exact fixed-point number in base 1/alpha.     *)
(***************************************************************************)
EXTENDS Integers, Sequences, FiniteSets, TLC

----------------------------------------------------------------------------
(* Program constants *)

FEATURE_LEN == 128
HISTORY_BUFFER_LEN == 99
DESIRE_LEN == 8
OUTPUT_SIZE == 5990
MODEL_FREQ == 20
FILTER_RC == 10
LEAD_MS == 25
DESYNC_MS == 10
DROP_CLAMP == 10
WARMUP_RUNS == 10

(* Bounds of the model *)

\* evaluated cycles explored with unconstrained inputs
MaxCycles == 2
\* evaluated cycles explored on the steady dual-camera stream
MaxSteadyCycles == 103
\* evaluated cycles explored with unconstrained frames and a quiet upstream
MaxLiveCycles == 2

(* Input sets *)

ROAD == "VISION_STREAM_ROAD"
WIDE_ROAD == "VISION_STREAM_WIDE_ROAD"

\* start-of-frame advance of a received main frame over the previous one (ms)
FrameDts == {20, 50}
\* start-of-frame advance of a received extra frame over the previous one
\* (ms): less than the 25 ms lead, so that catching up can take several frames
ExtraFrameDts == {20}
\* frame id advance of a received main frame: none lost, one lost
FrameGaps == {1, 2}
\* lateralPlan.desire.raw values: none, index 0, two manoeuvres, out of range
Desires == {-1, 0, 1, 2, DESIRE_LEN}
\* liveCalibration.rpyCalib values
Eulers == {"rpy1", "rpy2"}

----------------------------------------------------------------------------
(* Values *)

None == <<"none", 0>>

ZeroVec == [i \in 0..(DESIRE_LEN - 1) |-> 0]

ZeroFeature == <<0, 0, FEATURE_LEN>>

ZeroMatrix == [euler |-> "zeros", wide |-> FALSE, big |-> FALSE]

Zeros(n, v) == [i \in 1..n |-> v]

\* the warp computed for the medmodel frame whatever bigmodel_frame says
update_calibration_medmodel(device_from_calib_euler, wide_camera, bigmodel_frame) ==
  [euler |-> device_from_calib_euler, wide |-> wide_camera, big |-> FALSE]

\* lines 36-42: the warp matrix is a function of exactly these three inputs
update_calibration(device_from_calib_euler, wide_camera, bigmodel_frame) ==
  [euler |-> device_from_calib_euler, wide |-> wide_camera, big |-> bigmodel_frame]

----------------------------------------------------------------------------
(* FirstOrderFilter: x <- x + (u - x) * (dt / rc), exactly.                *)
(* A value is [neg, d]: sign and magnitude, d the little-endian digits in  *)
(* base AlphaInv = rc / dt; after k updates d has k fractional digits and  *)
(* one integer digit (|x| <= DROP_CLAMP < AlphaInv).                       *)

AlphaInv == FILTER_RC * MODEL_FREQ

RECURSIVE MulD(_, _, _)
MulD(a, m, c) ==
  IF a = <<>> THEN <<c>>
  ELSE <<(a[1] * m + c) % AlphaInv>> \o MulD(Tail(a), m, (a[1] * m + c) \div AlphaInv)

RECURSIVE AddD(_, _, _)
AddD(a, b, c) ==
  IF a = <<>> THEN <<>>
  ELSE <<(a[1] + b[1] + c) % AlphaInv>> \o AddD(Tail(a), Tail(b), (a[1] + b[1] + c) \div AlphaInv)

\* a - b - br for a >= b + br
RECURSIVE SubD(_, _, _)
SubD(a, b, br) ==
  IF a = <<>> THEN <<>>
  ELSE LET t == a[1] - b[1] - br
       IN  <<IF t < 0 THEN t + AlphaInv ELSE t>> \o SubD(Tail(a), Tail(b), IF t < 0 THEN 1 ELSE 0)

RECURSIVE GeD(_, _)
GeD(a, b) ==
  IF a = <<>> THEN TRUE
  ELSE LET n == Len(a)
       IN  IF a[n] # b[n] THEN a[n] > b[n] ELSE GeD(SubSeq(a, 1, n - 1), SubSeq(b, 1, n - 1))

IsZeroD(a) == \A i \in 1..Len(a) : a[i] = 0

Abs(u) == IF u < 0 THEN -u ELSE u

FilterInit == [neg |-> FALSE, d |-> <<0>>]

\* ((AlphaInv - 1) * x + u) / AlphaInv: the numerator gains one digit, u is
\* aligned with the integer digit of x
FilterUpdate(x, u) ==
  LET k  == Len(x.d)
      t  == MulD(x.d, AlphaInv - 1, 0)
      w  == [i \in 1..(k + 1) |-> IF i = k THEN Abs(u) ELSE 0]
      un == u < 0
  IN  IF x.neg = un \/ IsZeroD(x.d) \/ u = 0
        THEN [neg |-> IF IsZeroD(x.d) THEN (un /\ u # 0) ELSE x.neg, d |-> AddD(t, w, 0)]
      ELSE IF GeD(t, w)
        THEN [neg |-> x.neg /\ ~IsZeroD(SubD(t, w, 0)), d |-> SubD(t, w, 0)]
      ELSE [neg |-> un, d |-> SubD(w, t, 0)]

\* 1 + x, with the digits of x
FilterPlusOne(x) ==
  LET one == [i \in 1..Len(x.d) |-> IF i = Len(x.d) THEN 1 ELSE 0]
  IN  IF ~x.neg \/ IsZeroD(x.d) THEN [neg |-> FALSE, d |-> AddD(x.d, one, 0)]
      ELSE IF GeD(one, x.d) THEN [neg |-> FALSE, d |-> SubD(one, x.d, 0)]
      ELSE [neg |-> TRUE, d |-> SubD(x.d, one, 0)]

\* line 216: frames_dropped / (1 + frames_dropped), as an exact fraction
FrameDropRatio(frames_dropped) ==
  [num |-> frames_dropped, den |-> FilterPlusOne(frames_dropped)]

FilterIsZero(x) == IsZeroD(x.d)
FilterNonNeg(x) == ~x.neg \/ IsZeroD(x.d)
\* x = -1, the value at which 1 + x is 0
FilterIsMinusOne(x) ==
  x.neg /\ x.d = [i \in 1..Len(x.d) |-> IF i = Len(x.d) THEN 1 ELSE 0]

----------------------------------------------------------------------------
VARIABLES
  camerad_streams,       \* the streams camerad offers; {} while it has not started
  use_extra_client,      \* line 119
  main_wide_camera,      \* line 120
  vipc_client_main,      \* [timestamp_sof, frame_id] of the last received frame
  vipc_client_extra,
  buf_main,              \* handle <<stream, n>> of the n-th received frame, or None
  buf_extra,
  desire_pulse,          \* model.inputs['desire_pulse']
  prev_desire,           \* model.prev_desire
  feature_buffer,        \* model.inputs['feature_buffer']
  frame_dropped_filter,
  run_count,
  last_vipc_frame_id,
  model_transform_main,
  model_transform_extra,
  live_calib_seen,
  pc,                    \* position in start-up: "streams", "connect_main",
                         \* "connect_extra"; in the main loop: "main", "extra", "eval"
  received,              \* frames received so far: [main, extra]
  executions,            \* number of model.execute() calls so far
  log,                   \* messages logged so far in the running cycle
  cycle,                 \* how the last finished cycle ended, and what it logged
  last_eval              \* what the last cycle that reached model.eval did

vars == <<camerad_streams, use_extra_client, main_wide_camera, vipc_client_main, vipc_client_extra,
          buf_main, buf_extra, desire_pulse, prev_desire, feature_buffer,
          frame_dropped_filter, run_count, last_vipc_frame_id,
          model_transform_main, model_transform_extra, live_calib_seen,
          pc, received, executions, log, cycle, last_eval>>

\* the state ModelState and the main loop carry from cycle to cycle
model_vars == <<desire_pulse, prev_desire, feature_buffer>>
loop_vars == <<frame_dropped_filter, run_count, last_vipc_frame_id,
               model_transform_main, model_transform_extra, live_calib_seen>>
mode_vars == <<camerad_streams, use_extra_client, main_wide_camera>>

NoEval ==
  [buf |-> None, prev_buf |-> None, prepared |-> None, wide_prepared |-> None,
   frame_id |-> 0, prev_frame_id |-> 0,
   executed |-> FALSE, prepare_only |-> FALSE, prev_prepare_only |-> FALSE,
   vipc_dropped_frames |-> 0, filter_input |-> 0, frames_dropped |-> FilterInit,
   frame_drop_ratio |-> FrameDropRatio(FilterInit),
   desire |-> 0, manoeuvre |-> 0, evicted |-> ZeroVec, calib_updated |-> FALSE,
   transform |-> ZeroMatrix, transform_wide |-> ZeroMatrix,
   after_failure |-> FALSE]

\* the state at line 115: models loaded, no stream looked up yet, camerad
\* yet to offer its streams
Init ==
  /\ camerad_streams = {}
  /\ use_extra_client = FALSE
  /\ main_wide_camera = FALSE
  /\ vipc_client_main = [timestamp_sof |-> 0, frame_id |-> 0]
  /\ vipc_client_extra = [timestamp_sof |-> 0, frame_id |-> 0]
  /\ buf_main = None
  /\ buf_extra = None
  /\ desire_pulse = Zeros(HISTORY_BUFFER_LEN + 1, ZeroVec)
  /\ prev_desire = ZeroVec
  /\ feature_buffer = Zeros(HISTORY_BUFFER_LEN, ZeroFeature)
  /\ frame_dropped_filter = FilterInit
  /\ run_count = 0
  /\ last_vipc_frame_id = 0
  /\ model_transform_main = ZeroMatrix
  /\ model_transform_extra = ZeroMatrix
  /\ live_calib_seen = FALSE
  /\ pc = "streams"
  /\ received = [main |-> 0, extra |-> 0]
  /\ executions = 0
  /\ log = {}
  /\ cycle = [result |-> "none", log |-> {}]
  /\ last_eval = NoEval

----------------------------------------------------------------------------
(* The environment: what the frame transport and the upstream state can    *)
(* deliver.  "free" draws every input from its whole set; "steady" is a    *)
(* 20 Hz camera pair with aligned timestamps whose main stream may lose    *)
(* the frames of LostFrames, or BurstGap - 1 frames in a row starting at a *)
(* frame of BurstFrames, a manoeuvre requested at most in the cycles       *)
(* of ManoeuvreRuns and calibration arriving at most in the first cycle;   *)
(* "live" has the frames of "free" and an upstream that requests no        *)
(* manoeuvre and sends no calibration.                                     *)

FRAME_MS == 1000 \div MODEL_FREQ
LostFrames == {3, 101}
BurstFrames == {50}
BurstGap == DROP_CLAMP + 2
ManoeuvreRuns == {0, 1, 100}

Min(a, b) == IF a < b THEN a ELSE b

\* frames vipc_client_main.recv() may return next
MainFrames(env) ==
  LET c == vipc_client_main
  IN  IF env # "steady"
        THEN { [timestamp_sof |-> c.timestamp_sof + dt, frame_id |-> i] :
                 dt \in FrameDts,
                 i \in IF received.main = 0 THEN {g - 1 : g \in FrameGaps}
                       ELSE {c.frame_id + g : g \in FrameGaps} }
        ELSE { [timestamp_sof |-> c.timestamp_sof + g * FRAME_MS, frame_id |-> c.frame_id + g] :
                 g \in {1} \cup (IF (c.frame_id + 1) \in LostFrames THEN {2} ELSE {})
                           \cup (IF (c.frame_id + 1) \in BurstFrames THEN {BurstGap} ELSE {}) }

\* frames vipc_client_extra.recv() may return next
ExtraFrames(env) ==
  LET c == vipc_client_extra
  IN  { [timestamp_sof |-> c.timestamp_sof + dt, frame_id |-> c.frame_id + 1] :
          dt \in IF env = "steady" THEN {FRAME_MS} ELSE ExtraFrameDts }

\* sm["lateralPlan"].desire.raw after sm.update(0)
DesireInputs(env) ==
  IF env = "free" THEN Desires
  ELSE IF env = "live" THEN {0}
  ELSE IF run_count \in ManoeuvreRuns THEN {0, 1, 2} ELSE {0}

\* sm.updated["liveCalibration"] and rpyCalib: "none" when not updated
CalibInputs(env) ==
  IF env = "free" THEN {"none"} \cup Eulers
  ELSE IF env = "live" THEN {"none"}
  ELSE IF run_count < 1 THEN {"none", "rpy1"} ELSE {"none"}

\* cycles this environment is explored for
CycleBound(env) ==
  IF env = "free" THEN MaxCycles
  ELSE IF env = "live" THEN MaxLiveCycles
  ELSE MaxSteadyCycles

\* whether the cycle that reaches model.eval follows a failed one; kept where
\* recovery from a failed cycle is examined
AfterFailure(env) == env = "live" /\ cycle.result \in {"no_main", "no_extra"}

----------------------------------------------------------------------------
(* Start-up, lines 115-137.  A loop that sleeps and retries changes        *)
(* nothing until its call succeeds, so only the successful iteration is a  *)
(* step.  A stream can be connected to when camerad offers it.             *)

StartupPcs == {"streams", "connect_main", "connect_extra"}

\* line 124
MainStream(wide) == IF wide THEN WIDE_ROAD ELSE ROAD

\* camerad starts and offers its streams
CameradStarts ==
  /\ pc = "streams"
  /\ camerad_streams = {}
  /\ camerad_streams' \in (SUBSET {ROAD, WIDE_ROAD}) \ {{}}
  /\ UNCHANGED <<use_extra_client, main_wide_camera, model_vars, loop_vars,
                 vipc_client_main, vipc_client_extra, buf_main, buf_extra,
                 pc, received, executions, log, cycle, last_eval>>

\* lines 115-121: available_streams is not empty
DiscoverStreams ==
  /\ pc = "streams"
  /\ camerad_streams # {}
  /\ use_extra_client' = ((WIDE_ROAD \in camerad_streams) /\ (ROAD \in camerad_streams))
  /\ main_wide_camera' = (ROAD \notin camerad_streams)
  /\ pc' = "connect_main"
  /\ UNCHANGED <<camerad_streams, model_vars, loop_vars,
                 vipc_client_main, vipc_client_extra, buf_main, buf_extra,
                 received, executions, log, cycle, last_eval>>

\* lines 124-125, 130-131: vipc_client_main.connect(False) returned True
ConnectMain ==
  /\ pc = "connect_main"
  /\ MainStream(main_wide_camera) \in camerad_streams
  /\ pc' = "connect_extra"
  /\ UNCHANGED <<mode_vars, model_vars, loop_vars,
                 vipc_client_main, vipc_client_extra, buf_main, buf_extra,
                 received, executions, log, cycle, last_eval>>

\* lines 126, 132-133: vipc_client_extra.connect(False) returned True; the
\* loop runs whether or not use_extra_client is set
ConnectExtra ==
  /\ pc = "connect_extra"
  /\ WIDE_ROAD \in camerad_streams
  /\ pc' = "main"
  /\ UNCHANGED <<mode_vars, model_vars, loop_vars,
                 vipc_client_main, vipc_client_extra, buf_main, buf_extra,
                 received, executions, log, cycle, last_eval>>

----------------------------------------------------------------------------
(* Frame sync, lines 159-188 *)

\* the comparison with the 10 ms of line 181 in place of the 25 ms lead
MainNotAheadShortLead(m, e) == m.timestamp_sof < e.timestamp_sof + DESYNC_MS

\* line 161 and line 174: main is less than one frame ahead of extra
MainNotAhead(m, e) == m.timestamp_sof < e.timestamp_sof + LEAD_MS

\* line 181, as written: both operands are the main timestamp
OutOfSync(m, e) == Abs(m.timestamp_sof - m.timestamp_sof) > DESYNC_MS

Failed(result, msg) == [result |-> result, log |-> log \cup {msg}]

\* lines 161-162: one iteration of the main receive loop that got a frame
MainRecvFrame(env) ==
  /\ pc = "main"
  /\ run_count < CycleBound(env)
  /\ MainNotAhead(vipc_client_main, vipc_client_extra)
  /\ \E f \in MainFrames(env) :
       /\ vipc_client_main' = f
       /\ buf_main' = <<"main", received.main + 1>>
       /\ received' = [received EXCEPT !.main = @ + 1]
  /\ UNCHANGED <<mode_vars, model_vars, loop_vars, vipc_client_extra, buf_extra,
                 pc, executions, log, cycle, last_eval>>

\* lines 161-168: recv() returned None: break, log, continue
MainRecvNone(env) ==
  /\ pc = "main"
  /\ run_count < CycleBound(env)
  /\ MainNotAhead(vipc_client_main, vipc_client_extra)
  /\ buf_main' = None
  /\ cycle' = Failed("no_main", "vipc_client_main no frame")
  /\ log' = {}
  /\ UNCHANGED <<mode_vars, model_vars, loop_vars, vipc_client_main, vipc_client_extra,
                 buf_extra, pc, received, executions, last_eval>>

\* lines 161, 166-170, 186-188: the loop condition is false
MainAhead(env) ==
  /\ pc = "main"
  /\ run_count < CycleBound(env)
  /\ ~MainNotAhead(vipc_client_main, vipc_client_extra)
  /\ IF buf_main = None
       THEN /\ cycle' = Failed("no_main", "vipc_client_main no frame")
            /\ log' = {}
            /\ UNCHANGED <<pc, buf_extra>>
     ELSE IF use_extra_client
       THEN /\ pc' = "extra"
            /\ UNCHANGED <<cycle, log, buf_extra>>
     ELSE   /\ buf_extra' = buf_main
            /\ pc' = "eval"
            /\ UNCHANGED <<cycle, log>>
  /\ UNCHANGED <<mode_vars, model_vars, loop_vars, vipc_client_main, vipc_client_extra,
                 buf_main, received, executions, last_eval>>

\* the extra loop left with the first frame it gets
ExtraRecvFrameFirst(env) ==
  /\ pc = "extra"
  /\ \E f \in ExtraFrames(env) :
       /\ vipc_client_extra' = f
       /\ buf_extra' = <<"extra", received.extra + 1>>
       /\ received' = [received EXCEPT !.extra = @ + 1]
       /\ pc' = "eval"
       /\ log' = IF OutOfSync(vipc_client_main, f)
                   THEN log \cup {"frames out of sync!"} ELSE log
  /\ UNCHANGED <<mode_vars, model_vars, loop_vars, vipc_client_main, buf_main,
                 executions, cycle, last_eval>>

\* lines 172-175, 181-184: one iteration of the extra receive loop that got a frame
ExtraRecvFrame(env) ==
  /\ pc = "extra"
  /\ \E f \in ExtraFrames(env) :
       /\ vipc_client_extra' = f
       /\ buf_extra' = <<"extra", received.extra + 1>>
       /\ received' = [received EXCEPT !.extra = @ + 1]
       /\ IF MainNotAhead(vipc_client_main, f)
            THEN /\ pc' = "eval"
                 /\ log' = IF OutOfSync(vipc_client_main, f)
                             THEN log \cup {"frames out of sync!"} ELSE log
            ELSE UNCHANGED <<pc, log>>
  /\ UNCHANGED <<mode_vars, model_vars, loop_vars, vipc_client_main, buf_main,
                 executions, cycle, last_eval>>

\* the main frame given up together with the missing extra frame
ExtraRecvNoneDropsMain(env) ==
  /\ pc = "extra"
  /\ buf_extra' = None
  /\ buf_main' = None
  /\ cycle' = Failed("no_extra", "vipc_client_extra no frame")
  /\ log' = {}
  /\ pc' = "main"
  /\ UNCHANGED <<mode_vars, model_vars, loop_vars, vipc_client_main, vipc_client_extra,
                 received, executions, last_eval>>

\* the error logged without the continue of line 179
ExtraRecvNoneProceeds(env) ==
  /\ pc = "extra"
  /\ buf_extra' = None
  /\ log' = log \cup {"vipc_client_extra no frame"}
  /\ pc' = "eval"
  /\ UNCHANGED <<mode_vars, model_vars, loop_vars, vipc_client_main, vipc_client_extra,
                 buf_main, received, executions, cycle, last_eval>>

\* a failed cycle that counts as a run
ExtraRecvNoneCounted(env) ==
  /\ pc = "extra"
  /\ buf_extra' = None
  /\ cycle' = Failed("no_extra", "vipc_client_extra no frame")
  /\ log' = {}
  /\ pc' = "main"
  /\ run_count' = run_count + 1
  /\ UNCHANGED <<mode_vars, model_vars, frame_dropped_filter, last_vipc_frame_id,
                 model_transform_main, model_transform_extra, live_calib_seen,
                 vipc_client_main, vipc_client_extra,
                 buf_main, received, executions, last_eval>>

\* lines 173-179: recv() returned None: break, log, continue
ExtraRecvNone(env) ==
  /\ pc = "extra"
  /\ buf_extra' = None
  /\ cycle' = Failed("no_extra", "vipc_client_extra no frame")
  /\ log' = {}
  /\ pc' = "main"
  /\ UNCHANGED <<mode_vars, model_vars, loop_vars, vipc_client_main, vipc_client_extra,
                 buf_main, received, executions, last_eval>>

----------------------------------------------------------------------------
(* ModelState.eval, lines 70-102 *)

\* lines 204-206
VecDesire(desire) ==
  [i \in 0..(DESIRE_LEN - 1) |-> IF desire >= 0 /\ desire < DESIRE_LEN /\ i = desire THEN 1 ELSE 0]

\* the desire vector without the clearing of index 0
RawDesireKeepsFirst(vec_desire) == vec_desire

\* line 72: inputs['desire_pulse'][0] = 0
RawDesire(vec_desire) == [vec_desire EXCEPT ![0] = 0]

\* the desire level instead of its rising edge
DesirePulseLevel(raw, prev) ==
  [i \in 0..(DESIRE_LEN - 1) |-> IF 100 * raw[i] > 99 THEN raw[i] ELSE 0]

\* line 74: np.where(raw - prev > .99, raw, 0)
DesirePulse(raw, prev) ==
  [i \in 0..(DESIRE_LEN - 1) |-> IF 100 * (raw[i] - prev[i]) > 99 THEN raw[i] ELSE 0]

\* the newest block overwritten without the shift of line 73
PushDesireNoShift(history, pulse) == [history EXCEPT ![Len(history)] = pulse]

\* lines 73-74: shift by one block, newest block last
PushDesire(history, pulse) == Append(Tail(history), pulse)

\* line 99: self.output[OUTPUT_SIZE:OUTPUT_SIZE+FEATURE_LEN] of execution e
FeatureOf(e) == <<e, OUTPUT_SIZE, FEATURE_LEN>>

\* the history shifted the other way, newest block first
PushFeatureFront(buffer, feature) == <<feature>> \o SubSeq(buffer, 1, Len(buffer) - 1)

\* lines 98-99
PushFeature(buffer, feature) == Append(Tail(buffer), feature)

\* the id difference without the - 1
DroppedFramesNoOffset(frame_id, last_frame_id) == frame_id - last_frame_id

\* line 209
DroppedFrames(frame_id, last_frame_id) == frame_id - last_frame_id - 1

\* line 210: the value handed to frame_dropped_filter.update
FilterInput(vipc_dropped_frames) == Min(vipc_dropped_frames, DROP_CLAMP)

\* warm-up that lasts one run longer
InWarmupInclusive(runs) == runs <= WARMUP_RUNS

\* lines 211-213
InWarmup(runs) == runs < WARMUP_RUNS

\* a single dropped frame tolerated
PrepareOnlyAboveOne(vipc_dropped_frames) == vipc_dropped_frames > 1

\* line 217
PrepareOnly(vipc_dropped_frames) == vipc_dropped_frames > 0

\* line 87: the wide image is prepared when wbuf is not None
WidePrepared(wbuf) == IF wbuf # None THEN wbuf ELSE None

\* the manoeuvre the upstream desire asks for: 1..DESIRE_LEN-1, or 0 for none
Manoeuvre(desire) == IF desire >= 1 /\ desire < DESIRE_LEN THEN desire ELSE 0

\* lines 190-241: upstream state, calibration, drop tracking, model.eval
Evaluate(env) ==
  /\ pc = "eval"
  /\ \E desire \in DesireInputs(env), calib \in CalibInputs(env) :
       LET vipc_dropped_frames == DroppedFrames(vipc_client_main.frame_id, last_vipc_frame_id)
           filtered     == FilterUpdate(frame_dropped_filter, FilterInput(vipc_dropped_frames))
           frames_dropped == IF InWarmup(run_count) THEN FilterInit ELSE filtered
           prepare_only == PrepareOnly(vipc_dropped_frames)
           raw          == RawDesire(VecDesire(desire))
           pulse        == DesirePulse(raw, prev_desire)
           transform    == IF calib # "none"
                             THEN update_calibration(calib, main_wide_camera, FALSE)
                             ELSE model_transform_main
           transform_wide == IF calib # "none"
                               THEN update_calibration(calib, TRUE, TRUE)
                               ELSE model_transform_extra
       IN  /\ model_transform_main' = transform
           /\ model_transform_extra' = transform_wide
           /\ live_calib_seen' = (live_calib_seen \/ calib # "none")
           /\ frame_dropped_filter' = filtered
           /\ run_count' = run_count + 1
           /\ desire_pulse' = PushDesire(desire_pulse, pulse)
           /\ prev_desire' = raw
           /\ IF prepare_only
                THEN UNCHANGED <<feature_buffer, executions>>
                ELSE /\ executions' = executions + 1
                     /\ feature_buffer' = PushFeature(feature_buffer, FeatureOf(executions + 1))
           /\ last_vipc_frame_id' = vipc_client_main.frame_id
           /\ cycle' = [result |-> "evaluated",
                        log |-> IF prepare_only THEN log \cup {"skipping model eval"} ELSE log]
           /\ last_eval' = [buf |-> buf_main, prev_buf |-> last_eval.buf,
                            prepared |-> buf_main, wide_prepared |-> WidePrepared(buf_extra),
                            frame_id |-> vipc_client_main.frame_id,
                            prev_frame_id |-> last_eval.frame_id,
                            executed |-> ~prepare_only, prepare_only |-> prepare_only,
                            prev_prepare_only |-> last_eval.prepare_only,
                            vipc_dropped_frames |-> vipc_dropped_frames,
                            filter_input |-> FilterInput(vipc_dropped_frames),
                            frames_dropped |-> frames_dropped,
                            frame_drop_ratio |-> FrameDropRatio(frames_dropped),
                            desire |-> desire,
                            manoeuvre |-> Manoeuvre(desire),
                            evicted |-> desire_pulse[1],
                            calib_updated |-> calib # "none",
                            transform |-> transform, transform_wide |-> transform_wide,
                            after_failure |-> AfterFailure(env)]
  /\ log' = {}
  /\ pc' = "main"
  /\ UNCHANGED <<mode_vars, vipc_client_main, vipc_client_extra, buf_main, buf_extra, received>>

----------------------------------------------------------------------------
Next ==
  \/ CameradStarts
  \/ DiscoverStreams
  \/ ConnectMain
  \/ ConnectExtra
  \/ MainRecvFrame("free")
  \/ MainRecvNone("free")
  \/ MainAhead("free")
  \/ ExtraRecvFrame("free")
  \/ ExtraRecvNone("free")
  \/ Evaluate("free")

Spec == Init /\ [][Next]_vars

NextSteady ==
  \/ CameradStarts
  \/ DiscoverStreams
  \/ ConnectMain
  \/ ConnectExtra
  \/ MainRecvFrame("steady")
  \/ MainRecvNone("steady")
  \/ MainAhead("steady")
  \/ ExtraRecvFrame("steady")
  \/ ExtraRecvNone("steady")
  \/ Evaluate("steady")

SpecSteady == Init /\ [][NextSteady]_vars

NextLive ==
  \/ CameradStarts
  \/ DiscoverStreams
  \/ ConnectMain
  \/ ConnectExtra
  \/ MainRecvFrame("live")
  \/ MainRecvNone("live")
  \/ MainAhead("live")
  \/ ExtraRecvFrame("live")
  \/ ExtraRecvNone("live")
  \/ Evaluate("live")

\* The loop is one thread that always takes its next step; a stream that
\* keeps delivering frames returns a frame to one of any endless series of
\* receives.
SpecLive ==
  /\ Init
  /\ [][NextLive]_vars
  /\ WF_vars(MainAhead("live"))
  /\ WF_vars(Evaluate("live"))
  /\ SF_vars(MainRecvFrame("live"))
  /\ SF_vars(ExtraRecvFrame("live"))

----------------------------------------------------------------------------
(* Properties *)

\* a step that takes a synced cycle through lines 190-241
EvaluateStep == pc = "eval" /\ pc' = "main"

OneHot(d) == [i \in 0..(DESIRE_LEN - 1) |-> IF i = d /\ d # 0 THEN 1 ELSE 0]

\* C1: a synced cycle whose raw dropped-frame count (main frame id - last
\* recorded main frame id - 1) is above 0 passes its main frame to the image
\* preparation, does not execute the engine and leaves the feature history
\* as it was; warm-up cycles included.
C1_PrepareOnly ==
  [][ (EvaluateStep /\ vipc_client_main.frame_id - last_vipc_frame_id - 1 > 0)
        => /\ buf_main # None
           /\ last_eval'.prepared = buf_main
           /\ ~last_eval'.executed
           /\ executions' = executions
           /\ feature_buffer' = feature_buffer ]_vars

\* a prepare-only cycle in warm-up that kept a feature history already written to
C1_Witness ==
  /\ cycle.result = "evaluated"
  /\ last_eval.vipc_dropped_frames > 0
  /\ last_eval.prepared = buf_main
  /\ run_count <= WARMUP_RUNS
  /\ executions >= 1
  /\ feature_buffer[HISTORY_BUFFER_LEN] # ZeroFeature

\* C2: a cycle that ends with "no main frame" or "no extra frame" consists
\* of frame-sync steps only, and every frame-sync step, the one that ends
\* the cycle included, evaluates nothing and leaves the desire history, the
\* previous desire, the feature history, the filter, the warm-up counter, the
\* last recorded main frame id, both warp matrices and the calibration-seen
\* flag unchanged.
C2_FailedCycleKeepsState ==
  [][ (pc # "eval" \/ cycle'.result \in {"no_main", "no_extra"})
        => /\ UNCHANGED <<desire_pulse, prev_desire, feature_buffer,
                          frame_dropped_filter, run_count, last_vipc_frame_id,
                          model_transform_main, model_transform_extra, live_calib_seen>>
           /\ executions' = executions
           /\ last_eval' = last_eval ]_vars

\* a cycle failed on the extra stream after cycles that changed all of that state
C2_Witness ==
  /\ cycle.result = "no_extra"
  /\ run_count >= 1
  /\ live_calib_seen
  /\ prev_desire # ZeroVec
  /\ ~FilterIsZero(frame_dropped_filter)
  /\ executions >= 1
  /\ received.main >= 2

\* C3: every evaluated cycle uses a main frame received after the previous
\* evaluated cycle: no main frame is evaluated in two cycles.
C3_FreshMainFrame ==
  cycle.result = "evaluated" => last_eval.buf # last_eval.prev_buf

\* C4: while the upstream desire holds a manoeuvre d over consecutive
\* evaluated cycles, the newest desire block carries the pulse for d in the
\* first of them and is all zero in the following ones; so a pulse for d is
\* appended only when the previous evaluated cycle's desire was not d.
C4_PulseOnRisingEdge ==
  [][ EvaluateStep =>
        \A d \in 1..(DESIRE_LEN - 1) :
          last_eval'.manoeuvre = d =>
            desire_pulse'[HISTORY_BUFFER_LEN + 1] =
              IF last_eval.manoeuvre = d THEN ZeroVec ELSE OneHot(d) ]_vars

\* manoeuvre 1 held for two evaluated cycles, the second a prepare-only one:
\* pulse in the first, zero block in the second
C4_Witness ==
  /\ cycle.result = "evaluated"
  /\ last_eval.manoeuvre = 1
  /\ last_eval.prepare_only
  /\ prev_desire = OneHot(1)
  /\ desire_pulse[HISTORY_BUFFER_LEN + 1] = ZeroVec
  /\ desire_pulse[HISTORY_BUFFER_LEN] = OneHot(1)

\* the feature history that holds the last HISTORY_BUFFER_LEN of n executions
LastFeatures(n) ==
  [i \in 1..HISTORY_BUFFER_LEN |->
     IF n - HISTORY_BUFFER_LEN + i >= 1
       THEN <<n - HISTORY_BUFFER_LEN + i, 5990, 128>>
       ELSE <<0, 0, 128>>]

\* C5: the feature history holds output[5990:5990+128] of the most recent 99
\* executions of the engine, oldest first, behind zero blocks while fewer
\* than 99 have happened; it changes in a step iff the engine executed in it.
C5_FeatureFifo ==
  /\ [](feature_buffer = LastFeatures(executions))
  /\ [][ (feature_buffer' # feature_buffer) <=> (executions' # executions) ]_vars

\* a prepare-only cycle after the 100th execution: the first feature evicted,
\* the full history kept
C5_Witness ==
  /\ cycle.result = "evaluated"
  /\ last_eval.prepare_only
  /\ executions = HISTORY_BUFFER_LEN + 1
  /\ feature_buffer[1] = <<2, 5990, 128>>

\* C6: every evaluated cycle, prepare-only or not, shifts the desire history
\* by one block (oldest dropped, the others in order, this cycle's pulse
\* newest), keeps it at HISTORY_BUFFER_LEN+1 blocks and sets the previous
\* desire to this cycle's raw desire vector with index 0 zeroed.
C6_DesireShift ==
  [][ EvaluateStep =>
        LET raw == OneHot(last_eval'.manoeuvre)
        IN  /\ Len(desire_pulse') = HISTORY_BUFFER_LEN + 1
            /\ \A i \in 1..HISTORY_BUFFER_LEN : desire_pulse'[i] = desire_pulse[i + 1]
            /\ desire_pulse'[HISTORY_BUFFER_LEN + 1] =
                 [i \in 0..(DESIRE_LEN - 1) |->
                    IF raw[i] = 1 /\ prev_desire[i] = 0 THEN 1 ELSE 0]
            /\ prev_desire' = raw ]_vars

\* a prepare-only cycle that dropped a pulse block from the oldest position
C6_Witness ==
  /\ cycle.result = "evaluated"
  /\ last_eval.prepare_only
  /\ last_eval.evicted # ZeroVec
  /\ run_count > HISTORY_BUFFER_LEN + 1

\* C7: the dropped-frame count of every evaluated cycle, as used for the
\* prepare-only decision and as fed to the filter, is never below 0.
C7_DroppedNonNegative ==
  cycle.result = "evaluated" =>
    last_eval.vipc_dropped_frames >= 0 /\ last_eval.filter_input >= 0

\* C8: the drop-rate filter value and the value the frame-drop ratio is
\* computed from are >= 0 in every evaluated cycle, so the ratio
\* smoothed/(1+smoothed) lies in [0, 1) and 1+smoothed is not 0.
C8_FilterNonNegative ==
  /\ FilterNonNeg(frame_dropped_filter)
  /\ FilterNonNeg(last_eval.frames_dropped)
  /\ ~FilterIsMinusOne(last_eval.frames_dropped)

\* C9: the filter state is exactly 0 during the first 10 evaluated cycles.
C9_FilterZeroInWarmup ==
  run_count <= WARMUP_RUNS => FilterIsZero(frame_dropped_filter)

\* C10: in dual-camera mode a cycle that completes frame sync has logged
\* the desynchronization warning iff the final main and extra start-of-frame
\* timestamps differ by more than 10 ms.
C10_DesyncWarning ==
  (use_extra_client /\ pc = "eval") =>
    (("frames out of sync!" \in log)
       <=> (Abs(vipc_client_main.timestamp_sof - vipc_client_extra.timestamp_sof) > DESYNC_MS))

\* C11: in dual-camera mode, as long as no receive on the extra stream has
\* returned a frame, no cycle has reached evaluation: every finished cycle
\* failed, the engine was not executed, and the desire history, the previous
\* desire, the feature history, the filter, the warm-up counter, the last
\* recorded main frame id, both warp matrices and the calibration-seen flag
\* are as they were at start-up.
C11_NoExtraNoEvaluation ==
  (use_extra_client /\ received.extra = 0)
    => /\ pc # "eval"
       /\ cycle.result \in {"none", "no_main", "no_extra"}
       /\ last_eval = NoEval
       /\ executions = 0
       /\ run_count = 0
       /\ desire_pulse = Zeros(HISTORY_BUFFER_LEN + 1, ZeroVec)
       /\ prev_desire = ZeroVec
       /\ feature_buffer = Zeros(HISTORY_BUFFER_LEN, ZeroFeature)
       /\ frame_dropped_filter = FilterInit
       /\ last_vipc_frame_id = 0
       /\ model_transform_main = ZeroMatrix
       /\ model_transform_extra = ZeroMatrix
       /\ ~live_calib_seen

\* a cycle that got main frames and then failed on the extra stream, which
\* has delivered nothing yet
C11_Witness ==
  /\ use_extra_client
  /\ received.extra = 0
  /\ received.main >= 2
  /\ cycle.result = "no_extra"
  /\ pc = "main"

\* C12: in single-camera mode a cycle reaches evaluation with the extra frame
\* reference equal to the main frame reference, and no evaluated cycle
\* prepares a wide image.
C12_WidePathNeverInvoked ==
  /\ (~use_extra_client /\ pc = "eval") => buf_extra = buf_main
  /\ (~use_extra_client /\ cycle.result = "evaluated") => last_eval.wide_prepared = None

\* C13: the calibration-seen flag is false at start-up and never goes back to
\* false; the flag and the two warp matrices change only in an evaluated
\* cycle that saw a calibration update, and such a cycle sets the flag,
\* computes both matrices from the same Euler angles (the main one with the
\* intrinsics of the main camera for the medmodel frame, the extra one with
\* the wide intrinsics for the bigmodel frame) and hands these new matrices
\* to its evaluation.
C13_CalibrationLatch ==
  /\ ~live_calib_seen
  /\ [][ /\ live_calib_seen => live_calib_seen'
         /\ (\/ live_calib_seen' # live_calib_seen
             \/ model_transform_main' # model_transform_main
             \/ model_transform_extra' # model_transform_extra)
              => (EvaluateStep /\ last_eval'.calib_updated)
         /\ (EvaluateStep /\ last_eval'.calib_updated)
              => /\ live_calib_seen'
                 /\ model_transform_main'.euler \in Eulers
                 /\ model_transform_extra'.euler = model_transform_main'.euler
                 /\ model_transform_main'.wide = main_wide_camera
                 /\ ~model_transform_main'.big
                 /\ model_transform_extra'.wide
                 /\ model_transform_extra'.big
                 /\ last_eval'.transform = model_transform_main'
                 /\ last_eval'.transform_wide = model_transform_extra' ]_vars

\* calibration seen in the first cycle, recomputed from other angles in the
\* second
C13_Witness ==
  /\ cycle.result = "evaluated"
  /\ run_count = 2
  /\ live_calib_seen
  /\ last_eval.calib_updated
  /\ model_transform_main.euler = "rpy2"
  /\ model_transform_extra = [euler |-> "rpy2", wide |-> TRUE, big |-> TRUE]
  /\ last_eval.transform_wide = model_transform_extra

\* C14: the step that ends the main-receive phase of a cycle without "no main
\* frame" is taken with a main frame whose start-of-frame timestamp is at
\* least the last known extra timestamp plus 25 ms.
C14_MainLeads ==
  [][ (pc = "main" /\ pc' \in {"extra", "eval"})
        => /\ buf_main # None
           /\ vipc_client_main.timestamp_sof >= vipc_client_extra.timestamp_sof + LEAD_MS
           /\ vipc_client_main' = vipc_client_main
           /\ vipc_client_extra' = vipc_client_extra ]_vars

\* the main-receive phase of a second cycle ended after two more main frames
C14_Witness ==
  /\ pc = "extra"
  /\ run_count = 1
  /\ received.main >= 3
  /\ buf_main # None
  /\ vipc_client_extra.timestamp_sof > 0
  /\ vipc_client_main.timestamp_sof >= vipc_client_extra.timestamp_sof + LEAD_MS

\* C15: every block of the desire history, and the previous desire, is all
\* zero or has exactly one entry equal to 1, at an index in 1..DESIRE_LEN-1;
\* index 0 of every block is 0; after an evaluated cycle whose upstream
\* desire was 0, negative or at least DESIRE_LEN the newest block is all zero.
C15_DesireBlocks ==
  /\ \A k \in 1..(HISTORY_BUFFER_LEN + 1) :
       /\ desire_pulse[k][0] = 0
       /\ \E d \in 0..(DESIRE_LEN - 1) : desire_pulse[k] = OneHot(d)
  /\ prev_desire[0] = 0
  /\ \E d \in 0..(DESIRE_LEN - 1) : prev_desire = OneHot(d)
  /\ (cycle.result = "evaluated" /\ (last_eval.desire <= 0 \/ last_eval.desire >= DESIRE_LEN))
       => desire_pulse[HISTORY_BUFFER_LEN + 1] = ZeroVec

\* desire 0 in the cycle after a manoeuvre pulse
C15_Witness ==
  /\ cycle.result = "evaluated"
  /\ last_eval.desire = 0
  /\ desire_pulse[HISTORY_BUFFER_LEN] = OneHot(2)
  /\ desire_pulse[HISTORY_BUFFER_LEN + 1] = ZeroVec
  /\ prev_desire = ZeroVec

\* C16: every evaluated cycle, prepare-only or not, ends with the last
\* recorded main frame id equal to its main frame id; a cycle whose main
\* frame id is more than one above that of the evaluated cycle before it is
\* prepare-only, and an evaluated cycle that follows a prepare-only cycle
\* with a main frame id exactly one greater executes the engine.
C16_LastFrameId ==
  [][ EvaluateStep
        => /\ last_vipc_frame_id' = vipc_client_main.frame_id
           /\ (run_count >= 1 /\ vipc_client_main.frame_id > last_eval.frame_id + 1)
                => (last_eval'.prepare_only /\ executions' = executions)
           /\ (run_count >= 1 /\ last_eval.prepare_only
                 /\ vipc_client_main.frame_id = last_eval.frame_id + 1)
                => (last_eval'.executed /\ executions' = executions + 1) ]_vars

\* one lost frame: a prepare-only cycle, then an executed one on the next frame
C16_Witness ==
  /\ cycle.result = "evaluated"
  /\ last_eval.executed
  /\ last_eval.prev_prepare_only
  /\ last_eval.frame_id = last_eval.prev_frame_id + 1
  /\ last_vipc_frame_id = last_eval.frame_id

\* C17: the warm-up counter goes up by one in every evaluated cycle and in
\* no other step; the frame drop ratio of the first 10 evaluated cycles is
\* 0, and from the 11th on it is f / (1 + f) for f the filter value after
\* that cycle's update.
C17_WarmupRatio ==
  [][ /\ EvaluateStep => run_count' = run_count + 1
      /\ ~EvaluateStep => run_count' = run_count
      /\ (EvaluateStep /\ run_count < 10)
           => last_eval'.frame_drop_ratio =
                [num |-> [neg |-> FALSE, d |-> <<0>>], den |-> [neg |-> FALSE, d |-> <<1>>]]
      /\ (EvaluateStep /\ run_count >= 10)
           => last_eval'.frame_drop_ratio =
                [num |-> frame_dropped_filter', den |-> FilterPlusOne(frame_dropped_filter')] ]_vars

\* the 11th evaluated cycle of a dual-camera run reports a ratio other than 0
C17_Witness ==
  /\ use_extra_client
  /\ cycle.result = "evaluated"
  /\ run_count = WARMUP_RUNS + 1
  /\ ~FilterIsZero(last_eval.frame_drop_ratio.num)
  /\ last_eval.frame_drop_ratio.num = frame_dropped_filter

\* C18: a dual-camera cycle that reaches evaluation ends with the main
\* timestamp below the extra timestamp plus 25 ms, and, when an evaluated
\* cycle came before it, with a main frame received since then whose frame
\* id is above that of the earlier cycle.
C18_SyncedPair ==
  [][ (use_extra_client /\ EvaluateStep)
        => /\ vipc_client_main'.timestamp_sof < vipc_client_extra'.timestamp_sof + LEAD_MS
           /\ run_count >= 1
                => /\ buf_main # last_eval.buf
                   /\ vipc_client_main.frame_id > last_eval.frame_id ]_vars

\* the second evaluated dual-camera cycle, on a later main frame
C18_Witness ==
  /\ use_extra_client
  /\ cycle.result = "evaluated"
  /\ pc = "main"
  /\ run_count = 2
  /\ last_eval.buf # last_eval.prev_buf
  /\ last_eval.frame_id > last_eval.prev_frame_id
  /\ vipc_client_main.timestamp_sof < vipc_client_extra.timestamp_sof + LEAD_MS

\* C19: in dual-camera mode, with streams that return a frame to one of any
\* endless series of receives and whose timestamps increase, every cycle
\* count below the explored bound is followed by the next one: the receive
\* loops end and a cycle reaches evaluation, whatever failed cycles come in
\* between.
C19_SyncRecovers ==
  \A n \in 0..(MaxLiveCycles - 1) :
    (use_extra_client /\ pc \notin StartupPcs /\ run_count = n) ~> (run_count = n + 1)

\* a dual-camera cycle evaluated right after a failed one
C19_Witness ==
  /\ use_extra_client
  /\ cycle.result = "evaluated"
  /\ last_eval.after_failure
  /\ run_count = MaxLiveCycles

\* C20: when camerad offers the road stream and no wide stream, start-up can
\* always take its next step (find the streams, connect main, connect
\* extra) until the main loop runs, and the main loop then runs with
\* neither use_extra_client nor main_wide_camera set.
C20_StartupTerminates ==
  /\ (camerad_streams = {ROAD} /\ pc \in StartupPcs)
       => ENABLED (DiscoverStreams \/ ConnectMain \/ ConnectExtra)
  /\ (camerad_streams = {ROAD} /\ pc \notin StartupPcs)
       => (~use_extra_client /\ ~main_wide_camera)


====
